---- MODULE Spec2Model ----
(***************************************************************************)
(* Model of the Wikipedia pageview ingestion job                           *)
(* (src/data_ingest/wikipedia_data_ingest.py).                             *)
(*                                                                         *)
(*   SpecFetch : WikipediaDownloader.process_hour_data called repeatedly   *)
(*               on the hour slots of one local directory.                 *)
(*   SpecRange : the hour list built by download_data_for_range.           *)
(*   SpecPool  : download_data_for_range fanning process_hour_data out on  *)
(*               a ThreadPoolExecutor through executor.map.                *)
(*   SpecSetup : SnowflakeLoader.connect / setup_snowflake_objects /       *)
(*               close_connection.                                         *)
(*   SpecLoad  : SnowflakeLoader.load_data_from_local_to_snowflake run     *)
(*               repeatedly over one directory.                            *)
(*   SpecWorkflow : one run of run_ingestion_workflow.                     *)
(*   SpecLegacy   : download_wikipedia_pageview_data of the first script   *)
(*               (src/wikipedia_data_ingest.py).                           *)
(*   SpecSchedule : hourly_wikipedia_schedule_function                     *)
(*               (src/orchestration/wikipedia_dagster/assets.py).          *)
(***************************************************************************)
EXTENDS Integers, Sequences, FiniteSets, TLC

\* ------------------------------------------------------------------ bounds
\* Hour slots are hour indices 0..MaxSlot (date and hour folded into one
\* count of hours; timedelta(hours=1) is +1).
MaxSlot == 2
\* The remote archive is streamed in NChunks chunks of Config.CHUNK_SIZE.
NChunks == 2
\* Worker threads of the pool (Config.MAX_DOWNLOAD_WORKERS).
MaxWorkers == 2

\* Slots on which SpecFetch calls process_hour_data.
MaxFetchSlot == 1
\* Files in the directory of SpecLoad, and load calls on it.
MaxFiles == 3
MaxRuns == 2
\* Downloads of one hour that a run of the legacy loop is followed through.
MaxAttempts == 2

Slots == 0..MaxSlot
FetchSlots == 0..MaxFetchSlot

\* ------------------------------------------------------------------ state
VARIABLES
    remote,     \* SpecFetch/SpecPool: per slot, the upstream archive: "good" | "corrupt"
    gz,         \* per slot, the local .gz file: [ex, n] (n chunks on disk)
    txt,        \* per slot, the local .txt file: [ex, data]
    call,       \* the most recent process_hour_data call of SpecFetch and what it did
    start_dt,   \* download_data_for_range: its arguments, [h, mi, s, us]
    end_dt,
    hours_to_process,
    pc,         \* where download_data_for_range is
    fut,        \* per submitted task, the state of its future
    qhead,      \* next item of the executor's work queue
    idx,        \* the future executor.map's result iterator waits for
    cidx,       \* the future the iterator's cleanup cancels next
    conn,       \* SnowflakeLoader.conn: "none" | "open" | "closed"
    objects,    \* the warehouse: the objects that exist
    setupCall,  \* the most recent setup_snowflake_objects call and what it did
    schemaCfg,  \* connection_params["schema"] (Config.SNOWFLAKE_SCHEMA)
    listing,    \* SpecLoad: what os.listdir(local_data_dir) returns
    loadCall,   \* the most recent load_data_from_local_to_snowflake call
    loadStats,  \* SpecLoad: per file, the uploads and copies that succeeded so far
    wf,         \* SpecWorkflow: the run of run_ingestion_workflow
    legacy,     \* SpecLegacy: the loop of download_wikipedia_pageview_data
    sched       \* SpecSchedule: one evaluation of the schedule function

fileVars == <<remote, gz, txt>>
rangeVars == <<start_dt, end_dt, hours_to_process, pc>>
poolVars == <<fut, qhead, idx, cidx>>
sfVars == <<conn, objects, setupCall>>
loadVars == <<schemaCfg, listing, loadCall, loadStats>>
runVars == <<wf, legacy, sched>>
lateVars == <<schemaCfg, listing, loadCall, loadStats, wf, legacy, sched>>
vars == <<remote, gz, txt, call, start_dt, end_dt, hours_to_process, pc, fut, qhead, idx, cidx,
          conn, objects, setupCall, schemaCfg, listing, loadCall, loadStats, wf, legacy, sched>>

\* ------------------------------------------------------------------ files
NoGz == [ex |-> FALSE, n |-> 0]
NoTxt == [ex |-> FALSE, data |-> "empty"]
GzFile(k) == [ex |-> TRUE, n |-> k]
TxtFile(d) == [ex |-> TRUE, data |-> d]

\* gzip.open(path).read(): an empty file reads as b"", a proper prefix of the
\* archive ends before the end-of-stream marker (EOFError), a complete but
\* corrupt archive is a BadGzipFile, a complete good archive yields the text.
Gunzip(g, rem) ==
    IF g.n = 0 THEN [ok |-> TRUE, data |-> "empty"]
    ELSE IF g.n < NChunks THEN [ok |-> FALSE, data |-> "empty"]
    ELSE IF rem = "corrupt" THEN [ok |-> FALSE, data |-> "empty"]
    ELSE [ok |-> TRUE, data |-> "full"]

\* ------------------------------------------------------------ the fetcher
\* What one HTTP GET and the write of its body can do.
DlOutcomes ==
    {[kind |-> k, k |-> 0] : k \in {"conn_error", "http_error", "open_error", "ok"}}
    \cup {[kind |-> "stream_error", k |-> i] : i \in 0..NChunks}
    \cup {[kind |-> "write_error", k |-> i] : i \in 0..(NChunks - 1)}

\* What the disk can do to the write of the decompressed file.
UzOutcomes == {"ok", "open_error", "write_error"}

IsAlreadyProcessedNever(t) == FALSE

IsAlreadyProcessed(t) == t.ex

IsGzDownloadedNever(g) == FALSE

IsGzDownloaded(g) == g.ex

\* _download_file: only requests.exceptions.RequestException is caught.
DownloadFile(g, o) ==
    CASE o.kind \in {"conn_error", "http_error"} ->
            [ret |-> "False", gz |-> g, wrote |-> FALSE]
      [] o.kind = "open_error" ->
            [ret |-> "raise", gz |-> g, wrote |-> FALSE]
      [] o.kind = "stream_error" ->
            [ret |-> "False", gz |-> GzFile(o.k), wrote |-> TRUE]
      [] o.kind = "write_error" ->
            [ret |-> "raise", gz |-> GzFile(o.k), wrote |-> TRUE]
      [] OTHER ->
            [ret |-> "True", gz |-> GzFile(NChunks), wrote |-> TRUE]

\* _unzip_file: every Exception is caught.  open(txt, 'wb') runs before
\* f_in.read(), so the .txt file exists (empty) once the read fails.
UnzipFile(g, t, rem, o) ==
    IF ~g.ex THEN [ret |-> "False", txt |-> t, wrote |-> FALSE]
    ELSE IF o = "open_error" THEN [ret |-> "False", txt |-> t, wrote |-> FALSE]
    ELSE LET z == Gunzip(g, rem) IN
         IF ~z.ok THEN [ret |-> "False", txt |-> TxtFile("empty"), wrote |-> TRUE]
         ELSE IF o = "write_error" /\ z.data # "empty"
              THEN [ret |-> "False", txt |-> TxtFile("partial"), wrote |-> TRUE]
         ELSE [ret |-> "True", txt |-> TxtFile(z.data), wrote |-> TRUE]

\* process_hour_data on the files g, t of one slot.
ProcessHourData(g, t, rem, dl, uz) ==
    IF IsAlreadyProcessed(t)
    THEN [ret |-> "True", gz |-> g, txt |-> t, http |-> 0, wrote |-> FALSE,
          dl |-> "none", unzip |-> "none"]
    ELSE LET needDl == ~IsGzDownloaded(g)
             d == IF needDl THEN DownloadFile(g, dl)
                  ELSE [ret |-> "True", gz |-> g, wrote |-> FALSE]
             h == IF needDl THEN 1 ELSE 0
             k == IF needDl THEN dl.kind ELSE "none"
         IN IF d.ret # "True"
            THEN [ret |-> d.ret, gz |-> d.gz, txt |-> t, http |-> h,
                  wrote |-> d.wrote, dl |-> k, unzip |-> "none"]
            ELSE LET u == UnzipFile(d.gz, t, rem, uz) IN
                 [ret |-> u.ret, gz |-> d.gz, txt |-> u.txt, http |-> h,
                  wrote |-> d.wrote \/ u.wrote, dl |-> k,
                  unzip |-> IF u.ret = "True" THEN "ok" ELSE "failed"]

NoCall == [made |-> FALSE, slot |-> 0, ret |-> "none", http |-> 0, wrote |-> FALSE,
           dl |-> "none", unzip |-> "none", pre_gz |-> NoGz, pre_txt |-> NoTxt]

\* A fresh output directory; the archives of the slots in S may be corrupt.
InitFiles(S) ==
    /\ remote \in {r \in [Slots -> {"good", "corrupt"}] :
                        \A s \in Slots \ S : r[s] = "good"}
    /\ gz = [s \in Slots |-> NoGz]
    /\ txt = [s \in Slots |-> NoTxt]

\* ------------------------------------------------------------ datetimes
\* A naive datetime: the hour index and the fields below the hour.
Minutes == {0, 30}
Seconds == {0, 15}
Micros == {0, 500}
DT(h, mi, sec, us) == [h |-> h, mi |-> mi, s |-> sec, us |-> us]
DateTimes == {DT(h, mi, sec, us) : h \in Slots, mi \in Minutes, sec \in Seconds, us \in Micros}

\* datetime comparison: field by field, most significant first.
DtLE(a, b) ==
    \/ a.h < b.h
    \/ a.h = b.h /\ a.mi < b.mi
    \/ a.h = b.h /\ a.mi = b.mi /\ a.s < b.s
    \/ a.h = b.h /\ a.mi = b.mi /\ a.s = b.s /\ a.us <= b.us

\* dt.replace(minute=0, second=0, microsecond=0)
TruncateToHour(dt) == DT(dt.h, 0, 0, 0)

\* dt + timedelta(hours=1)
AddHour(dt) == [dt EXCEPT !.h = @ + 1]

EffectiveEndAlwaysNext(e) == AddHour(TruncateToHour(e))

\* effective_end_dt of download_data_for_range
EffectiveEnd(e) ==
    IF e.mi > 0 \/ e.s > 0 THEN AddHour(TruncateToHour(e)) ELSE TruncateToHour(e)

RECURSIVE HoursLoop(_, _, _)
\* while current_date <= effective_end_dt: append, advance by one hour
HoursLoop(cur, eff, acc) ==
    IF DtLE(cur, eff) THEN HoursLoop(AddHour(cur), eff, Append(acc, cur)) ELSE acc

\* hours_to_process of download_data_for_range(start_dt, end_dt)
HoursToProcess(st, en) == HoursLoop(TruncateToHour(st), EffectiveEnd(en), <<>>)

\* ------------------------------------------------------------ idle parts
NoDT == DT(0, 0, 0, 0)

IdleFetch == call = NoCall

IdleRange ==
    /\ start_dt = NoDT
    /\ end_dt = NoDT
    /\ hours_to_process = <<>>
    /\ pc = "idle"

IdlePool ==
    /\ fut = <<>>
    /\ qhead = 1
    /\ idx = 1
    /\ cidx = 0

Ddl == {"schema", "stage", "table"}
NoSetupCall == [made |-> FALSE, hadConn |-> FALSE, ok |-> [k \in Ddl |-> TRUE],
                executed |-> <<>>, ret |-> "none",
                cursorOpened |-> FALSE, cursorClosed |-> FALSE]

NoLoadCall == [made |-> FALSE, hadConn |-> FALSE, listing |-> <<>>, out |-> <<>>,
               log |-> <<>>, cursorOpened |-> FALSE, cursorClosed |-> FALSE]
NoLoadStats == [runs |-> 0, failed |-> FALSE, put |-> <<>>, copy |-> <<>>]

Params == {"account", "user", "password", "warehouse", "database", "schema", "role"}
NoWf == [pc |-> "idle", now |-> NoDT, creds |-> [p \in Params |-> TRUE], mode |-> "none",
         start |-> NoDT, end |-> NoDT, fetched |-> {}, fetchRet |-> "none",
         loaderMade |-> FALSE, connectRet |-> "none", setupRet |-> "none",
         connects |-> 0, setups |-> 0, loads |-> 0, closes |-> 0, raised |-> "none"]
NoLegacy == [pc |-> "idle", start |-> NoDT, cur |-> NoDT, end |-> NoDT,
             attempts |-> [s \in Slots |-> 0], raised |-> FALSE]
NoSched == [pc |-> "idle", time |-> NoDT, target |-> NoDT, check |-> NoDT, i |-> 0,
            probes |-> <<>>, result |-> [kind |-> "none"]]

IdleRuns ==
    /\ wf = NoWf
    /\ legacy = NoLegacy
    /\ sched = NoSched

IdleLoad ==
    /\ schemaCfg = "WIKIPEDIA"
    /\ listing = <<>>
    /\ loadCall = NoLoadCall
    /\ loadStats = NoLoadStats

IdleSnowflake ==
    /\ conn = "none"
    /\ objects = {}
    /\ setupCall = NoSetupCall
    /\ IdleLoad

InitFetch ==
    /\ InitFiles(FetchSlots)
    /\ call = NoCall
    /\ IdleRange
    /\ IdlePool
    /\ IdleSnowflake
    /\ IdleRuns

\* What process_hour_data can do on the files g, t, over everything the
\* network and the disk can do.
ProcessOutcomes(g, t, rem) ==
    {ProcessHourData(g, t, rem, dl, uz) : dl \in DlOutcomes, uz \in UzOutcomes}

\* One call of process_hour_data(slot s), whatever the network and disk do.
ProcessHourDataCall(s) ==
    \E r \in ProcessOutcomes(gz[s], txt[s], remote[s]) :
        /\ gz' = [gz EXCEPT ![s] = r.gz]
        /\ txt' = [txt EXCEPT ![s] = r.txt]
        /\ call' = [made |-> TRUE, slot |-> s, ret |-> r.ret, http |-> r.http,
                    wrote |-> r.wrote, dl |-> r.dl, unzip |-> r.unzip,
                    pre_gz |-> gz[s], pre_txt |-> txt[s]]
        /\ UNCHANGED <<remote, rangeVars, poolVars, sfVars, lateVars>>

NextFetch == \E s \in FetchSlots : ProcessHourDataCall(s)

SpecFetch == InitFetch /\ [][NextFetch]_vars

\* ------------------------------------------------- claims on the fetcher
CallSlot == call.slot

\* C1: a return value of True implies that the decompressed file exists and
\* holds the complete decompression of the slot's compressed file, whatever
\* calls (failed ones included) came before.
C1_TrueImpliesDecompressed ==
    (call.made /\ call.ret = "True") =>
        /\ txt[CallSlot].ex
        /\ gz[CallSlot].ex
        /\ Gunzip(gz[CallSlot], remote[CallSlot]).ok
        /\ txt[CallSlot].data = Gunzip(gz[CallSlot], remote[CallSlot]).data

\* C2: a call on a slot whose decompressed file already exists returns True,
\* issues no HTTP request and writes no file; so the call that follows a
\* successful call on the same slot returns True for every network outcome.
C2_ProcessedSlotIsNoOp ==
    /\ []((call.made /\ call.pre_txt.ex) =>
            /\ call.ret = "True"
            /\ call.http = 0
            /\ ~call.wrote
            /\ gz[CallSlot] = call.pre_gz
            /\ txt[CallSlot] = call.pre_txt)
    /\ [][(call.made /\ call.ret = "True" /\ call'.slot = call.slot) =>
            (call'.ret = "True" /\ call'.http = 0 /\ ~call'.wrote)]_vars

C2_Witness ==
    /\ call.made
    /\ call.pre_txt.ex
    /\ call.pre_txt.data = "full"
    /\ call.ret = "True"

\* C3: with the .gz file present and the .txt file absent, the call issues
\* no HTTP GET and goes on to decompress the .gz file that is there.
C3_NoRedownload ==
    (call.made /\ call.pre_gz.ex /\ ~call.pre_txt.ex) =>
        /\ call.http = 0
        /\ call.dl = "none"
        /\ call.unzip # "none"
        /\ gz[CallSlot] = call.pre_gz

C3_Witness ==
    /\ call.made
    /\ call.pre_gz.ex
    /\ ~call.pre_txt.ex
    /\ call.unzip = "ok"
    /\ txt[CallSlot] = TxtFile("full")

\* C4: when the GET fails (transport error, non-2xx status, or a failure
\* while the body is streamed) the call returns False and no .gz file of
\* the slot exists afterwards.
C4_FailedGetLeavesNoGz ==
    (call.made /\ call.dl \in {"conn_error", "http_error", "stream_error"}) =>
        /\ call.ret = "False"
        /\ ~gz[CallSlot].ex

\* C5: when decompression fails the call returns False, the .gz file is left
\* as it was, and the next call on the slot decompresses again without any
\* HTTP request instead of treating the slot as processed.
C5_FailedUnzipRetryable ==
    /\ []((call.made /\ call.unzip = "failed") =>
            /\ call.ret = "False"
            /\ gz[CallSlot].ex
            /\ (call.dl = "none" => gz[CallSlot] = call.pre_gz))
    /\ [][(call.made /\ call.unzip = "failed" /\ call'.slot = call.slot) =>
            (call'.unzip # "none" /\ call'.http = 0)]_vars

\* C6: no download or decompression failure reaches the caller as an
\* exception: each one becomes a False return value.
C6_NeverRaises ==
    call.made => call.ret \in {"True", "False"}

\* ------------------------------------------- SpecRange: the list of hours
InitRange ==
    /\ InitFiles({})
    /\ IdleFetch
    /\ IdlePool
    /\ IdleSnowflake
    /\ IdleRuns
    /\ start_dt \in DateTimes
    /\ end_dt \in DateTimes
    /\ DtLE(start_dt, end_dt)
    /\ hours_to_process = <<>>
    /\ pc = "start"

\* download_data_for_range up to the executor: builds hours_to_process.
ResolveRange ==
    /\ pc = "start"
    /\ hours_to_process' = HoursToProcess(start_dt, end_dt)
    /\ pc' = "resolved"
    /\ UNCHANGED <<fileVars, call, start_dt, end_dt, poolVars, sfVars, lateVars>>

NextRange == ResolveRange

SpecRange == InitRange /\ [][NextRange]_vars

EndAdvanced == end_dt.mi > 0 \/ end_dt.s > 0
LastHour == IF EndAdvanced THEN end_dt.h + 1 ELSE end_dt.h

\* C7: for start <= end the hour list is exactly the hours at one-hour
\* stride from start truncated to its hour through the effective end
\* inclusive, the effective end being end truncated to its hour and advanced
\* by one hour only if end has nonzero minutes or seconds; for an exact hour
\* T the list for (T, T) is <<T>>.
C7_HourList ==
    pc = "resolved" =>
        /\ Len(hours_to_process) = LastHour - start_dt.h + 1
        /\ \A i \in 1..Len(hours_to_process) : hours_to_process[i] = DT(start_dt.h + i - 1, 0, 0, 0)
        /\ (start_dt = end_dt /\ start_dt = TruncateToHour(start_dt)) => hours_to_process = <<start_dt>>

C7_Witness ==
    /\ pc = "resolved"
    /\ start_dt.mi > 0
    /\ end_dt.mi = 0 /\ end_dt.s = 0 /\ end_dt.us > 0
    /\ Len(hours_to_process) = 2
    /\ hours_to_process[2] = TruncateToHour(end_dt)

\* ------------------------- SpecPool: download_data_for_range, the fan-out
Tasks == 1..Len(hours_to_process)
Finished == {"True", "False", "raise"}
Running == {i \in Tasks : fut[i] = "running"}

\* The ranges of SpecPool: from hour 0, every hour of the list within Slots.
PoolEnds == {e \in DateTimes : e.us = 0 /\ EffectiveEnd(e).h <= MaxSlot}

InitPool ==
    /\ InitFiles({})
    /\ IdleFetch
    /\ IdlePool
    /\ IdleSnowflake
    /\ IdleRuns
    /\ start_dt = NoDT
    /\ end_dt \in PoolEnds
    /\ hours_to_process = <<>>
    /\ pc = "start"

\* Lines 141-161 up to the first result: the list is built and executor.map
\* submits one future per hour, in order, before any result is asked for.
SubmitAll ==
    /\ pc = "start"
    /\ hours_to_process' = HoursToProcess(start_dt, end_dt)
    /\ fut' = [i \in 1..Len(hours_to_process') |-> "pending"]
    /\ qhead' = 1
    /\ idx' = 1
    /\ pc' = "collect"
    /\ UNCHANGED <<fileVars, call, start_dt, end_dt, cidx, sfVars, lateVars>>

\* A free worker thread takes the next work item; an item whose future was
\* cancelled is dropped (set_running_or_notify_cancel).
WorkerTake ==
    /\ pc \in {"collect", "cancel", "shutdown"}
    /\ qhead \in Tasks
    /\ Cardinality(Running) < MaxWorkers
    /\ fut' = IF fut[qhead] = "pending" THEN [fut EXCEPT ![qhead] = "running"] ELSE fut
    /\ qhead' = qhead + 1
    /\ UNCHANGED <<fileVars, call, rangeVars, idx, cidx, sfVars, lateVars>>

\* A worker runs process_hour_data on its hour; the future takes the result
\* or the exception.
WorkerRun(i) ==
    /\ fut[i] = "running"
    /\ LET s == hours_to_process[i].h IN
       \E r \in ProcessOutcomes(gz[s], txt[s], remote[s]) :
        /\ gz' = [gz EXCEPT ![s] = r.gz]
        /\ txt' = [txt EXCEPT ![s] = r.txt]
        /\ fut' = [fut EXCEPT ![i] = r.ret]
    /\ UNCHANGED <<remote, call, rangeVars, qhead, idx, cidx, sfVars, lateVars>>

\* list(executor.map(...)): the result iterator takes the futures in
\* submission order; a result moves it on, an exception leaves it through
\* its finally clause.
MainCollect ==
    /\ pc = "collect"
    /\ idx \in Tasks
    /\ fut[idx] \in Finished
    /\ IF fut[idx] = "raise"
       THEN pc' = "cancel" /\ cidx' = Len(hours_to_process) /\ idx' = idx
       ELSE pc' = pc /\ cidx' = cidx /\ idx' = idx + 1
    /\ UNCHANGED <<fileVars, call, start_dt, end_dt, hours_to_process, fut, qhead, sfVars, lateVars>>

\* The iterator is exhausted: list() returns and the with block is left.
MainCollected ==
    /\ pc = "collect"
    /\ idx > Len(hours_to_process)
    /\ pc' = "shutdown"
    /\ UNCHANGED <<fileVars, call, start_dt, end_dt, hours_to_process, poolVars, sfVars, lateVars>>

\* The iterator's finally clause: future.cancel() on each future it still
\* holds, last submitted first; only a pending future can be cancelled.
MainCancel ==
    /\ pc = "cancel"
    /\ IF cidx > idx
       THEN /\ fut' = IF fut[cidx] = "pending"
                      THEN [fut EXCEPT ![cidx] = "cancelled"] ELSE fut
            /\ cidx' = cidx - 1
            /\ pc' = pc
       ELSE /\ pc' = "shutdown"
            /\ UNCHANGED <<fut, cidx>>
    /\ UNCHANGED <<fileVars, call, start_dt, end_dt, hours_to_process, qhead, idx, sfVars, lateVars>>

WorkersJoinedNoWait == TRUE

\* shutdown(wait=True): every worker thread has drained the queue and ended.
WorkersJoined == qhead > Len(hours_to_process) /\ Running = {}

\* ThreadPoolExecutor.__exit__: download_data_for_range is left (by return,
\* or by the exception of a task).
MainShutdown ==
    /\ pc = "shutdown"
    /\ WorkersJoined
    /\ pc' = "done"
    /\ UNCHANGED <<fileVars, call, start_dt, end_dt, hours_to_process, poolVars, sfVars, lateVars>>

NextPool ==
    \/ SubmitAll
    \/ WorkerTake
    \/ \E i \in Tasks : WorkerRun(i)
    \/ MainCollect
    \/ MainCollected
    \/ MainCancel
    \/ MainShutdown

SpecPool == InitPool /\ [][NextPool]_vars

\* C8: with N slots and K < N workers every slot gets its invocation and an
\* outcome, and a failing slot (a False result or an exception in its task)
\* cancels no other slot's task.
C8_AllSlotsGetOutcome ==
    (pc = "done" /\ MaxWorkers < Len(hours_to_process)) =>
        \A i \in Tasks : fut[i] \in Finished

\* C9: download_data_for_range is not left while a task is running: when it
\* is left, every task has finished or was never started.
C9_NoTaskRunningAtReturn ==
    pc = "done" =>
        /\ Running = {}
        /\ \A i \in Tasks : fut[i] \in Finished \cup {"cancelled"}

C9_Witness ==
    /\ pc = "done"
    /\ MaxWorkers < Len(hours_to_process)
    /\ \E i \in Tasks : fut[i] = "raise"
    /\ \E i \in Tasks : fut[i] = "True"

\* ------------------------------- SpecSetup: SnowflakeLoader and its DDL
StageNames == {"WIKIPEDIA_PAGEVIEWS_STAGE", "STAGE_B"}
TableNames == {"RAW_WIKIPEDIA_PAGEVIEWS", "TABLE_B"}

\* The statements of setup_snowflake_objects, in the order of the code, each
\* qualified with the schema the code names.
SetupSchema == "WIKIPEDIA"
SchemaSql == [kind |-> "schema", schema |-> SetupSchema, name |-> SetupSchema]
StageSql(stage_name) == [kind |-> "stage", schema |-> SetupSchema, name |-> stage_name]
TableSql(table_name) == [kind |-> "table", schema |-> SetupSchema, name |-> table_name]

\* A body that goes on to the stage after a failed schema statement.
SetupBodyNoAbort(stage_name, table_name, ok) ==
    IF ~ok["stage"]
    THEN [executed |-> <<SchemaSql, StageSql(stage_name)>>, ret |-> "False"]
    ELSE [executed |-> <<SchemaSql, StageSql(stage_name), TableSql(table_name)>>,
          ret |-> IF ok["schema"] /\ ok["table"] THEN "True" ELSE "False"]

\* The try block of setup_snowflake_objects, ok[k] telling whether
\* cursor.execute of statement k succeeds (_execute_sql turns its exception
\* into False, and the block returns False there).
SetupBody(stage_name, table_name, ok) ==
    IF ~ok["schema"]
    THEN [executed |-> <<SchemaSql>>, ret |-> "False"]
    ELSE IF ~ok["stage"]
    THEN [executed |-> <<SchemaSql, StageSql(stage_name)>>, ret |-> "False"]
    ELSE IF ~ok["table"]
    THEN [executed |-> <<SchemaSql, StageSql(stage_name), TableSql(table_name)>>,
          ret |-> "False"]
    ELSE [executed |-> <<SchemaSql, StageSql(stage_name), TableSql(table_name)>>,
          ret |-> "True"]

\* setup_snowflake_objects(stage_name, table_name) on connection c: without
\* a connection it returns False at once; otherwise it opens a cursor, runs
\* the try block, and its finally clause closes the cursor.
SetupSnowflakeObjects(c, stage_name, table_name, ok) ==
    IF c = "none"
    THEN [executed |-> <<>>, ret |-> "False", cursorOpened |-> FALSE, cursorClosed |-> FALSE]
    ELSE LET b == SetupBody(stage_name, table_name, ok) IN
         [executed |-> b.executed, ret |-> b.ret,
          cursorOpened |-> TRUE, cursorClosed |-> TRUE]

\* The statements of a run that took effect: all but a failed last one.
Created(r) ==
    {r.executed[j] : j \in {j \in 1..Len(r.executed) : r.ret = "True" \/ j < Len(r.executed)}}

InitSetup ==
    /\ InitFiles({})
    /\ IdleFetch
    /\ IdleRange
    /\ IdlePool
    /\ IdleSnowflake
    /\ IdleRuns

\* connect(): the connector either hands out a connection or raises.
Connect ==
    /\ conn \in {"none", "closed"}
    /\ \E success \in BOOLEAN : conn' = IF success THEN "open" ELSE "none"
    /\ UNCHANGED <<fileVars, call, rangeVars, poolVars, objects, setupCall, lateVars>>

\* close_connection()
CloseConnection ==
    /\ conn = "open"
    /\ conn' = "closed"
    /\ UNCHANGED <<fileVars, call, rangeVars, poolVars, objects, setupCall, lateVars>>

SetupSnowflakeObjectsCall(stage_name, table_name) ==
    /\ conn \in {"none", "open"}
    /\ \E ok \in [Ddl -> BOOLEAN] :
        LET r == SetupSnowflakeObjects(conn, stage_name, table_name, ok) IN
        /\ setupCall' = [made |-> TRUE, hadConn |-> conn = "open", ok |-> ok,
                         executed |-> r.executed, ret |-> r.ret,
                         cursorOpened |-> r.cursorOpened,
                         cursorClosed |-> r.cursorClosed]
        /\ objects' = objects \cup Created(r)
    /\ UNCHANGED <<fileVars, call, rangeVars, poolVars, conn, lateVars>>

NextSetup ==
    \/ Connect
    \/ CloseConnection
    \/ \E st \in StageNames, tb \in TableNames : SetupSnowflakeObjectsCall(st, tb)

SpecSetup == InitSetup /\ [][NextSetup]_vars

DdlOrder == <<"schema", "stage", "table">>
\* The first statement of the order that fails (one past the end: none).
FirstFailure(ok) ==
    IF \E j \in 1..Len(DdlOrder) : ~ok[DdlOrder[j]]
    THEN CHOOSE j \in 1..Len(DdlOrder) :
            ~ok[DdlOrder[j]] /\ \A i \in 1..(j - 1) : ok[DdlOrder[i]]
    ELSE Len(DdlOrder) + 1

\* C10: the DDL statements are issued in the order schema, stage, table;
\* the call returns False at the first one that fails and executes none
\* after it; it returns True only if all three succeeded; the cursor it
\* opened is closed on every path.
C10_SetupSequential ==
    setupCall.made =>
        /\ setupCall.ret \in {"True", "False"}
        /\ setupCall.cursorOpened => setupCall.cursorClosed
        /\ ~setupCall.hadConn => (setupCall.executed = <<>> /\ setupCall.ret = "False")
        /\ setupCall.hadConn =>
            LET f == FirstFailure(setupCall.ok)
                n == Len(setupCall.executed)
            IN /\ n = IF f > Len(DdlOrder) THEN Len(DdlOrder) ELSE f
               /\ \A j \in 1..n : setupCall.executed[j].kind = DdlOrder[j]
               /\ (setupCall.ret = "True") <=> (f > Len(DdlOrder))
               /\ setupCall.cursorOpened /\ setupCall.cursorClosed

C10_Witness ==
    /\ setupCall.made
    /\ setupCall.hadConn
    /\ ~setupCall.ok["schema"]
    /\ setupCall.ok["stage"]
    /\ Len(setupCall.executed) = 1
    /\ setupCall.ret = "False"

\* ------------------------------------------------------------ file names
\* A file name is the sequence of its characters; str comparison is by code
\* point, and these are the characters of the names in code point order.
CharOrder == <<".", "0", "1", "2", "3", "4", "5", "6", "7", "8", "9", "g", "t", "x", "z">>
Ord(c) == CHOOSE i \in 1..Len(CharOrder) : CharOrder[i] = c
Digits == <<"0", "1", "2", "3", "4", "5", "6", "7", "8", "9">>

RECURSIVE StrLT(_, _)
\* a < b on str
StrLT(a, b) ==
    IF a = <<>> THEN b # <<>>
    ELSE IF b = <<>> THEN FALSE
    ELSE IF Ord(Head(a)) < Ord(Head(b)) THEN TRUE
    ELSE IF Ord(Head(a)) > Ord(Head(b)) THEN FALSE
    ELSE StrLT(Tail(a), Tail(b))

\* name.endswith(suffix)
EndsWith(name, suffix) ==
    /\ Len(name) >= Len(suffix)
    /\ SubSeq(name, Len(name) - Len(suffix) + 1, Len(name)) = suffix

GzExt == <<".", "g", "z">>
TxtExt == <<".", "t", "x", "t">>

\* file_name_gz of _get_file_metadata: the slot's date and hour at fixed
\* width (the constant "pageviews-" and "0000" around them dropped).
FileNameGz(s) == <<Digits[s + 1]>> \o GzExt
\* file_name_gz.replace('.gz', '.txt')
FileNameTxt(s) ==
    LET g == FileNameGz(s) IN SubSeq(g, 1, Len(g) - Len(GzExt)) \o TxtExt

RECURSIVE Insert(_, _)
Insert(x, sorted) ==
    IF sorted = <<>> THEN <<x>>
    ELSE IF StrLT(x, Head(sorted)) THEN <<x>> \o sorted
    ELSE <<Head(sorted)>> \o Insert(x, Tail(sorted))

RECURSIVE InsertAll(_, _)
InsertAll(list, acc) ==
    IF list = <<>> THEN acc ELSE InsertAll(Tail(list), Insert(Head(list), acc))

SortedAsListed(list) == list

\* sorted(list) on a list of str
Sorted(list) == InsertAll(list, <<>>)

IsTxt(f) == EndsWith(f, TxtExt)

\* A listing filter that keeps only the last .txt file.
TxtFilesOnlyLast(ls) ==
    LET t == SelectSeq(ls, IsTxt) IN IF t = <<>> THEN t ELSE <<t[Len(t)]>>

\* txt_files of load_data_from_local_to_snowflake
TxtFiles(ls) == SelectSeq(ls, IsTxt)

\* ------------------------------------------------------------- the loader
Schemas == {"WIKIPEDIA", "PUBLIC"}

\* connection_params.get('schema', 'WIKIPEDIA'): the key is always there.
ConnSchema(cfg) == cfg

\* The PUT of _upload_file_to_stage and the COPY of _copy_data_into_table,
\* with the stage and the table they name.
PutSql(cfg, f, stage_name, ok) ==
    [op |-> "PUT", file |-> f, stage |-> <<ConnSchema(cfg), stage_name>>,
     table |-> <<>>, ok |-> ok]
CopySql(cfg, f, stage_name, table_name, ok) ==
    [op |-> "COPY", file |-> f, stage |-> <<ConnSchema(cfg), stage_name>>,
     table |-> <<ConnSchema(cfg), table_name>>, ok |-> ok]

\* What the warehouse does to one file's statements.
FileOutcomes == {"ok", "put_fail", "copy_fail"}

\* A loop body that issues the COPY whether or not the PUT succeeded.
LoadFileAlwaysCopy(cfg, f, stage_name, table_name, o) ==
    <<PutSql(cfg, f, stage_name, o # "put_fail"),
      CopySql(cfg, f, stage_name, table_name, o = "ok")>>

\* One pass of the for loop (lines 326-331): the PUT, and the COPY only if
\* the PUT succeeded; _execute_sql turns every exception into False.
LoadFile(cfg, f, stage_name, table_name, o) ==
    IF o = "put_fail"
    THEN <<PutSql(cfg, f, stage_name, FALSE)>>
    ELSE <<PutSql(cfg, f, stage_name, TRUE),
           CopySql(cfg, f, stage_name, table_name, o = "ok")>>

RECURSIVE LoadLoop(_, _, _, _, _)
\* for file_name in files: ...
LoadLoop(cfg, files, stage_name, table_name, out) ==
    IF files = <<>> THEN <<>>
    ELSE LoadFile(cfg, Head(files), stage_name, table_name, out[Head(files)])
         \o LoadLoop(cfg, Tail(files), stage_name, table_name, out)

\* load_data_from_local_to_snowflake on connection c, ls being what
\* os.listdir returns: nothing without a connection, nothing (and no cursor)
\* without .txt files; else the loop over sorted(txt_files), the cursor
\* closed by the finally clause.
LoadData(c, cfg, ls, stage_name, table_name, out) ==
    IF c = "none" \/ TxtFiles(ls) = <<>>
    THEN [log |-> <<>>, cursorOpened |-> FALSE, cursorClosed |-> FALSE]
    ELSE [log |-> LoadLoop(cfg, Sorted(TxtFiles(ls)), stage_name, table_name, out),
          cursorOpened |-> TRUE, cursorClosed |-> TRUE]

Range(seq) == {seq[i] : i \in 1..Len(seq)}

\* Every way the warehouse can treat the .txt files of ls.
LoadOutcomes(ls) == [Range(TxtFiles(ls)) -> FileOutcomes]

Count(log, op, f) ==
    Cardinality({i \in 1..Len(log) : log[i].op = op /\ log[i].file = f /\ log[i].ok})

\* ------------------------------------------------- SpecLoad: the load step
\* The names a directory of SpecLoad can hold: the .txt files of two hours,
\* one .gz file and one file put there by hand.
DirNames ==
    {FileNameTxt(0), FileNameTxt(1), FileNameGz(0), <<"0", "1">> \o TxtExt}

RECURSIVE Perms(_)
\* The orders in which os.listdir can return the set of names S.
Perms(S) ==
    IF S = {} THEN {<<>>}
    ELSE UNION {{<<x>> \o p : p \in Perms(S \ {x})} : x \in S}

Listings == UNION {Perms(S) : S \in {T \in SUBSET DirNames : Cardinality(T) <= MaxFiles}}

StageName == "WIKIPEDIA_PAGEVIEWS_STAGE"
TableName == "RAW_WIKIPEDIA_PAGEVIEWS"

InitLoad ==
    /\ InitFiles({})
    /\ IdleFetch
    /\ IdleRange
    /\ IdlePool
    /\ conn = "none"
    /\ objects = {}
    /\ setupCall = NoSetupCall
    /\ IdleRuns
    /\ schemaCfg = "WIKIPEDIA"
    /\ listing \in Listings
    /\ loadCall = NoLoadCall
    /\ loadStats = [runs |-> 0, failed |-> FALSE,
                    put |-> [f \in Range(listing) |-> 0],
                    copy |-> [f \in Range(listing) |-> 0]]

\* The uploads and copies of the calls so far in which no statement failed.
CountLoad(stats, r) ==
    IF \E i \in 1..Len(r.log) : ~r.log[i].ok
    THEN [stats EXCEPT !.failed = TRUE]
    ELSE [runs |-> stats.runs + 1,
          failed |-> stats.failed,
          put |-> [f \in DOMAIN stats.put |-> stats.put[f] + Count(r.log, "PUT", f)],
          copy |-> [f \in DOMAIN stats.copy |-> stats.copy[f] + Count(r.log, "COPY", f)]]

\* One call of load_data_from_local_to_snowflake on the directory.
LoadDataCall ==
    /\ loadStats.runs < MaxRuns
    /\ \E out \in LoadOutcomes(listing) :
       \E r \in {LoadData(conn, schemaCfg, listing, StageName, TableName, out)} :
        /\ loadCall' = [made |-> TRUE, hadConn |-> conn = "open", listing |-> listing,
                        out |-> out, log |-> r.log,
                        cursorOpened |-> r.cursorOpened, cursorClosed |-> r.cursorClosed]
        /\ loadStats' = IF conn = "none" THEN loadStats ELSE CountLoad(loadStats, r)
    /\ UNCHANGED <<fileVars, call, rangeVars, poolVars, sfVars, schemaCfg, listing, runVars>>

NextLoad ==
    \/ Connect
    \/ LoadDataCall

SpecLoad == InitLoad /\ [][NextLoad]_vars

Puts(log) == SelectSeq(log, LAMBDA st : st.op = "PUT")
Indexes(log, op, f) == {i \in 1..Len(log) : log[i].op = op /\ log[i].file = f}

\* C11: the .txt files are processed in ascending lexicographic order of
\* file name whatever order the listing has: the sequence of uploads is the
\* sorted list of the .txt names.
C11_UploadsSorted ==
    (loadCall.made /\ loadCall.hadConn) =>
        LET p == Puts(loadCall.log) IN
        /\ {p[i].file : i \in 1..Len(p)} = {f \in Range(loadCall.listing) : IsTxt(f)}
        /\ Len(p) = Cardinality({f \in Range(loadCall.listing) : IsTxt(f)})
        /\ \A i \in 1..Len(p) : \A j \in 1..Len(p) :
                i < j => StrLT(p[i].file, p[j].file)

C11_Witness ==
    /\ loadCall.made
    /\ loadCall.hadConn
    /\ Len(Puts(loadCall.log)) = 3
    /\ \E i \in 1..Len(loadCall.listing) : \E j \in 1..Len(loadCall.listing) :
            /\ i < j
            /\ IsTxt(loadCall.listing[i]) /\ IsTxt(loadCall.listing[j])
            /\ StrLT(loadCall.listing[j], loadCall.listing[i])

\* C12: each .txt file gets exactly one PUT per call whatever failed before
\* it, and a COPY if and only if its own PUT succeeded, after that PUT.
C12_PutOncePerFile ==
    (loadCall.made /\ loadCall.hadConn) =>
        \A f \in {g \in Range(loadCall.listing) : IsTxt(g)} :
            LET ps == Indexes(loadCall.log, "PUT", f)
                cs == Indexes(loadCall.log, "COPY", f)
            IN /\ Cardinality(ps) = 1
               /\ \A i \in ps :
                    /\ loadCall.log[i].ok <=> (loadCall.out[f] # "put_fail")
                    /\ IF loadCall.log[i].ok THEN cs = {i + 1} ELSE cs = {}

C12_Witness ==
    /\ loadCall.made
    /\ loadCall.hadConn
    /\ Len(Puts(loadCall.log)) = 3
    /\ ~loadCall.log[1].ok
    /\ Len(loadCall.log) = 4
    /\ loadCall.log[4].op = "COPY"

\* C17: a load call uploads and copies every .txt file of the directory
\* with no deduplication against earlier loads: after k calls in which no
\* statement failed, each file has been uploaded and copied k times by them.
C17_NoDedup ==
    \A f \in {g \in Range(listing) : IsTxt(g)} :
        /\ loadStats.put[f] = loadStats.runs
        /\ loadStats.copy[f] = loadStats.runs

C17_Witness ==
    /\ loadStats.runs = MaxRuns
    /\ Cardinality({g \in Range(listing) : IsTxt(g)}) = MaxFiles
    /\ \E f \in Range(listing) : loadStats.copy[f] = MaxRuns


\* ----------------------------------- SpecWorkflow: run_ingestion_workflow
\* datetime.now() at the start of the run: on the hour or inside it.
NowTimes == {d \in DateTimes : (d.mi = 0) = (d.s = 0) /\ (d.s = 0) = (d.us = 0)}

\* get_current_hour_datetime()
GetCurrentHourDatetime(now) == TruncateToHour(now)

\* The range the Dagster assets pass: both ends formatted to the second from
\* hour-aligned datetimes.
HourTimes == {TruncateToHour(d) : d \in DateTimes}

\* The environment of a run: at most one connection parameter is unset.
MissingChoices == {"none", "account", "schema", "role"}

\* SnowflakeLoader.__init__: an empty role is dropped from the required
\* parameters, any other empty parameter raises ValueError.
LoaderInit(creds) ==
    LET required == IF creds["role"] THEN Params ELSE Params \ {"role"} IN
    IF \E p \in required : ~creds[p] THEN "ValueError" ELSE "ok"

AfterFetchAlwaysLoader(ret) == "loader"

\* if not success: return
AfterFetch(ret) == IF ret = "True" THEN "loader" ELSE "done"

AfterConnectAlwaysSetup(ret) == "setup"

\* if not snowflake_loader.connect(): return
AfterConnect(ret) == IF ret = "True" THEN "setup" ELSE "done"

AfterSetupNoFinally(ret) == IF ret = "True" THEN "load" ELSE "done"

\* Inside try/finally: a False of setup_snowflake_objects returns through
\* the finally clause.
AfterSetup(ret) == IF ret = "True" THEN "load" ELSE "finally"

RECURSIVE DirAsc(_, _, _)
\* The names in the data directory, slot by slot from slot s on.
DirAsc(g, t, s) ==
    IF s > MaxSlot THEN <<>>
    ELSE (IF g[s].ex THEN <<FileNameGz(s)>> ELSE <<>>)
         \o (IF t[s].ex THEN <<FileNameTxt(s)>> ELSE <<>>)
         \o DirAsc(g, t, s + 1)

Reverse(seq) == [i \in 1..Len(seq) |-> seq[Len(seq) + 1 - i]]

\* os.listdir of the data directory: two of the orders it can return (all
\* orders of a directory are explored by SpecLoad).
ListDirOrders(g, t) == {DirAsc(g, t, 0), Reverse(DirAsc(g, t, 0))}

InitWorkflow ==
    /\ remote = [s \in Slots |-> "good"]
    /\ \E done \in SUBSET Slots :
        /\ gz = [s \in Slots |-> IF s \in done THEN GzFile(NChunks) ELSE NoGz]
        /\ txt = [s \in Slots |-> IF s \in done THEN TxtFile("full") ELSE NoTxt]
    /\ IdleFetch
    /\ IdleRange
    /\ IdlePool
    /\ conn = "none"
    /\ objects = {}
    /\ setupCall = NoSetupCall
    /\ schemaCfg \in Schemas
    /\ listing = <<>>
    /\ loadCall = NoLoadCall
    /\ loadStats = NoLoadStats
    /\ legacy = NoLegacy
    /\ sched = NoSched
    /\ \E now \in NowTimes, missing \in MissingChoices :
        wf = [NoWf EXCEPT !.pc = "start", !.now = now,
                          !.creds = [p \in Params |-> p # missing]]

wfRest == <<remote, rangeVars, poolVars, legacy, sched, schemaCfg, loadStats>>

\* run_ingestion_workflow(): the call binds no argument and takes the
\* current hour.
WfInvokeDefault ==
    /\ wf.pc = "start"
    /\ wf' = [wf EXCEPT !.pc = "fetch", !.mode = "default"]
    /\ UNCHANGED <<wfRest, gz, txt, call, sfVars, listing, loadCall>>

\* run_ingestion_workflow(start_date=st, end_date=en) as the Dagster assets
\* call it: the function declares no parameter, so the call raises TypeError
\* before its first statement.
WfInvokeRange(st, en) ==
    /\ wf.pc = "start"
    /\ DtLE(st, en)
    /\ wf' = [wf EXCEPT !.pc = "done", !.mode = "range", !.start = st, !.end = en,
                        !.raised = "TypeError"]
    /\ UNCHANGED <<wfRest, gz, txt, call, sfVars, listing, loadCall>>

\* downloader.process_hour_data(current_hour)
WfFetch ==
    /\ wf.pc = "fetch"
    /\ LET s == GetCurrentHourDatetime(wf.now).h IN
       \E r \in ProcessOutcomes(gz[s], txt[s], remote[s]) :
        /\ gz' = [gz EXCEPT ![s] = r.gz]
        /\ txt' = [txt EXCEPT ![s] = r.txt]
        /\ call' = [made |-> TRUE, slot |-> s, ret |-> r.ret, http |-> r.http,
                    wrote |-> r.wrote, dl |-> r.dl, unzip |-> r.unzip,
                    pre_gz |-> gz[s], pre_txt |-> txt[s]]
        /\ wf' = [wf EXCEPT !.fetched = @ \cup {s}, !.fetchRet = r.ret,
                            !.pc = AfterFetch(r.ret),
                            !.raised = IF r.ret = "raise" THEN "fetch" ELSE @]
    /\ UNCHANGED <<wfRest, sfVars, listing, loadCall>>

\* SnowflakeLoader(**sf_creds) under except ValueError: return
WfInitLoader ==
    /\ wf.pc = "loader"
    /\ wf' = IF LoaderInit(wf.creds) = "ok"
             THEN [wf EXCEPT !.pc = "connect", !.loaderMade = TRUE]
             ELSE [wf EXCEPT !.pc = "done", !.connectRet = "ValueError"]
    /\ UNCHANGED <<wfRest, gz, txt, call, sfVars, listing, loadCall>>

\* snowflake_loader.connect()
WfConnect ==
    /\ wf.pc = "connect"
    /\ \E success \in BOOLEAN :
        LET ret == IF success THEN "True" ELSE "False" IN
        /\ conn' = IF success THEN "open" ELSE "none"
        /\ wf' = [wf EXCEPT !.connects = @ + 1, !.connectRet = ret,
                            !.pc = AfterConnect(ret)]
    /\ UNCHANGED <<wfRest, gz, txt, call, objects, setupCall, listing, loadCall>>


\* snowflake_loader.setup_snowflake_objects(stage, table) inside the try
\* block; conn.cursor() is outside the function's own try and may raise.
WfSetup ==
    /\ wf.pc = "setup"
    /\ \/ /\ conn = "open"
          /\ wf' = [wf EXCEPT !.setups = @ + 1, !.setupRet = "raise",
                              !.raised = "setup", !.pc = "finally"]
          /\ UNCHANGED <<objects, setupCall>>
       \/ \E ok \in [Ddl -> BOOLEAN] :
          \E r \in {SetupSnowflakeObjects(conn, StageName, TableName, ok)} :
            /\ setupCall' = [made |-> TRUE, hadConn |-> conn = "open", ok |-> ok,
                             executed |-> r.executed, ret |-> r.ret,
                             cursorOpened |-> r.cursorOpened,
                             cursorClosed |-> r.cursorClosed]
            /\ objects' = objects \cup Created(r)
            /\ wf' = [wf EXCEPT !.setups = @ + 1, !.setupRet = r.ret,
                                !.pc = AfterSetup(r.ret)]
    /\ UNCHANGED <<wfRest, gz, txt, call, conn, listing, loadCall>>

\* snowflake_loader.load_data_from_local_to_snowflake(dir, stage, table)
\* inside the try block; os.listdir and conn.cursor() may raise.
WfLoad ==
    /\ wf.pc = "load"
    /\ \/ /\ conn = "open"
          /\ wf' = [wf EXCEPT !.loads = @ + 1, !.raised = "load", !.pc = "finally"]
          /\ UNCHANGED <<listing, loadCall>>
       \/ \E l \in ListDirOrders(gz, txt) :
          \E out \in LoadOutcomes(l) :
          \E r \in {LoadData(conn, schemaCfg, l, StageName, TableName, out)} :
            /\ listing' = l
            /\ loadCall' = [made |-> TRUE, hadConn |-> conn = "open", listing |-> l,
                            out |-> out, log |-> r.log,
                            cursorOpened |-> r.cursorOpened,
                            cursorClosed |-> r.cursorClosed]
            /\ wf' = [wf EXCEPT !.loads = @ + 1, !.pc = "finally"]
    /\ UNCHANGED <<wfRest, gz, txt, call, sfVars>>

\* finally: snowflake_loader.close_connection()
WfFinally ==
    /\ wf.pc = "finally"
    /\ conn' = IF conn = "open" THEN "closed" ELSE conn
    /\ wf' = [wf EXCEPT !.closes = IF conn = "open" THEN @ + 1 ELSE @, !.pc = "done"]
    /\ UNCHANGED <<wfRest, gz, txt, call, objects, setupCall, listing, loadCall>>

NextWorkflow ==
    \/ WfInvokeDefault
    \/ \E st \in HourTimes, en \in HourTimes : WfInvokeRange(st, en)
    \/ WfFetch
    \/ WfInitLoader
    \/ WfConnect
    \/ WfSetup
    \/ WfLoad
    \/ WfFinally

SpecWorkflow == InitWorkflow /\ [][NextWorkflow]_vars

\* C13: once process_hour_data has returned False for the target hour the
\* run is over and has taken no warehouse step: the loader was not built, no
\* connection was opened, setup_snowflake_objects and the load step were not
\* called, and no file was uploaded or copied.
C13_FetchFalseAborts ==
    wf.fetchRet = "False" =>
        /\ wf.pc = "done"
        /\ ~wf.loaderMade
        /\ wf.connects = 0 /\ conn = "none"
        /\ wf.setups = 0 /\ ~setupCall.made
        /\ wf.loads = 0 /\ ~loadCall.made /\ loadCall.log = <<>>

\* A run whose fetch of the target hour returned False although every
\* connection parameter was set.
C13_Witness ==
    /\ wf.pc = "done"
    /\ wf.mode = "default"
    /\ wf.fetchRet = "False"
    /\ LoaderInit(wf.creds) = "ok"

\* C14: when the connection cannot be established (connect returned False,
\* or the loader raised ValueError for a missing required parameter),
\* setup_snowflake_objects and load_data_from_local_to_snowflake are never
\* invoked and no connection is open when the run ends.
C14_NoConnectionNoWarehouseStep ==
    wf.connectRet \in {"False", "ValueError"} =>
        /\ wf.pc = "done"
        /\ wf.setups = 0 /\ ~setupCall.made
        /\ wf.loads = 0 /\ ~loadCall.made
        /\ conn # "open"
        /\ wf.closes = 0

\* A run that fetched its hour and then failed to connect.
C14_Witness ==
    /\ wf.pc = "done"
    /\ wf.fetchRet = "True"
    /\ wf.connectRet = "False"
    /\ wf.connects = 1

\* C15: once connect has succeeded, the connection is closed exactly once by
\* the time the run ends, on every path: setup returned False (and then the
\* load step was skipped), the load step ran with any per-file outcomes, or
\* one of the two steps raised.  It is never closed more than once, and it
\* stays open until the finally clause.
C15_ClosedExactlyOnce ==
    /\ wf.closes <= 1
    /\ wf.connectRet = "True" =>
        /\ wf.pc = "done" => wf.closes = 1 /\ conn = "closed"
        /\ wf.pc # "done" => wf.closes = 0 /\ conn = "open"
        /\ wf.setupRet = "False" => wf.loads = 0 /\ ~loadCall.made

\* A finished run whose setup returned False after the connection opened.
C15_Witness ==
    /\ wf.pc = "done"
    /\ wf.connectRet = "True"
    /\ wf.setupRet = "False"
    /\ wf.closes = 1


\* The hour slots of the range a run was invoked with.
RangeSlots(st, en) == {h.h : h \in Range(HoursToProcess(st, en))}

\* C16: a run invoked with start_date and end_date has, when it ends,
\* fetched every hour slot of that range and raised nothing at the call; a
\* run invoked without a range has fetched only the hour truncated from now.
C16_RangeAccepted ==
    wf.pc = "done" =>
        /\ wf.mode = "range" =>
            /\ wf.raised # "TypeError"
            /\ RangeSlots(wf.start, wf.end) \subseteq wf.fetched
        /\ wf.mode = "default" => wf.fetched = {GetCurrentHourDatetime(wf.now).h}

StageOf(st) == [kind |-> "stage", schema |-> st.stage[1], name |-> st.stage[2]]
TableOf(st) == [kind |-> "table", schema |-> st.table[1], name |-> st.table[2]]

\* C19: every PUT of a run writes to, and every COPY reads from, a stage
\* that setup_snowflake_objects created in the same run, and every COPY
\* loads into a table it created in the same run, whatever schema the
\* connection is configured with.
C19_EnsuredObjectsAreUsed ==
    \A i \in 1..Len(loadCall.log) :
        LET st == loadCall.log[i] IN
        /\ StageOf(st) \in objects
        /\ st.op = "COPY" => TableOf(st) \in objects


\* ------------------- SpecLegacy: download_wikipedia_pageview_data (legacy)
\* The date strings the function is given: 'YYYY-MM-DD HH:MM:SS', with the
\* hour early enough for the hour after the end to be a slot.
DateStrings == {[h |-> h, mi |-> mi, s |-> sec] :
                    h \in 0..(MaxFetchSlot - 1), mi \in Minutes, sec \in Seconds}

\* datetime.strptime(text, "%Y-%m-%d %H:%M:%S")
Strptime(text) == DT(text.h, text.mi, text.s, 0)

\* end_dt: one hour is added when the end is later than the start.
LegacyEnd(st, en) == IF DtLE(st, en) /\ st # en THEN AddHour(en) ELSE en

\* The file of current_date: its name is built from the date and the hour.
LegacySlot(cur) == cur.h

\* The try block around requests.get and the write of the body: a
\* RequestException is caught, any other exception leaves the function.
LegacyDownload(g, o) ==
    CASE o.kind \in {"conn_error", "http_error"} ->
            [res |-> "request_exception", gz |-> g]
      [] o.kind = "open_error" -> [res |-> "raise", gz |-> g]
      [] o.kind = "stream_error" -> [res |-> "request_exception", gz |-> GzFile(o.k)]
      [] o.kind = "write_error" -> [res |-> "raise", gz |-> GzFile(o.k)]
      [] OTHER -> [res |-> "ok", gz |-> GzFile(NChunks)]

\* The try block that unzips: open(txt, 'wb') runs before f_in.read(), and
\* every Exception is caught and logged.
LegacyUnzip(g, t, rem, o) ==
    IF o = "open_error" THEN t
    ELSE LET z == Gunzip(g, rem) IN
         IF ~z.ok THEN TxtFile("empty")
         ELSE IF o = "write_error" /\ z.data # "empty" THEN TxtFile("partial")
         ELSE TxtFile(z.data)

\* except RequestException: continue -- current_date is left as it is.
LegacyAfterFailure(cur) == cur

InitLegacy ==
    /\ remote \in {r \in [Slots -> {"good", "corrupt"}] : \A s \in Slots \ {0} : r[s] = "good"}
    /\ \E done \in SUBSET FetchSlots :
        /\ gz = [s \in Slots |-> IF s \in done THEN GzFile(NChunks) ELSE NoGz]
        /\ txt = [s \in Slots |-> IF s \in done THEN TxtFile("full") ELSE NoTxt]
    /\ IdleFetch
    /\ IdleRange
    /\ IdlePool
    /\ IdleSnowflake
    /\ wf = NoWf
    /\ sched = NoSched
    /\ \E st \in DateStrings, en \in DateStrings :
        /\ DtLE(Strptime(st), Strptime(en))
        /\ legacy = [NoLegacy EXCEPT !.pc = "loop", !.start = Strptime(st),
                                     !.cur = Strptime(st),
                                     !.end = LegacyEnd(Strptime(st), Strptime(en))]

legacyRest == <<remote, call, rangeVars, poolVars, sfVars, schemaCfg, listing,
                loadCall, loadStats, wf, sched>>

LegacyInLoop == legacy.pc = "loop" /\ DtLE(legacy.cur, legacy.end)

\* An iteration that finds the .txt file: skip to the next hour.
LegacySkipTxt ==
    /\ LegacyInLoop
    /\ txt[LegacySlot(legacy.cur)].ex
    /\ legacy' = [legacy EXCEPT !.cur = AddHour(@)]
    /\ UNCHANGED <<legacyRest, gz, txt>>

\* An iteration that finds only the .gz file: skip to the next hour.
LegacySkipGz ==
    /\ LegacyInLoop
    /\ ~txt[LegacySlot(legacy.cur)].ex
    /\ gz[LegacySlot(legacy.cur)].ex
    /\ legacy' = [legacy EXCEPT !.cur = AddHour(@)]
    /\ UNCHANGED <<legacyRest, gz, txt>>

\* An iteration that finds neither file: download, then unzip.
LegacyFetch ==
    /\ LegacyInLoop
    /\ LET s == LegacySlot(legacy.cur) IN
       /\ ~txt[s].ex /\ ~gz[s].ex
       /\ legacy.attempts[s] < MaxAttempts
       /\ \E dl \in DlOutcomes, uz \in UzOutcomes :
          \E d \in {LegacyDownload(gz[s], dl)} :
            /\ gz' = [gz EXCEPT ![s] = d.gz]
            /\ txt' = IF d.res = "ok"
                      THEN [txt EXCEPT ![s] = LegacyUnzip(d.gz, @, remote[s], uz)]
                      ELSE txt
            /\ legacy' = [legacy EXCEPT
                            !.attempts[s] = @ + 1,
                            !.cur = CASE d.res = "ok" -> AddHour(@)
                                      [] d.res = "request_exception" -> LegacyAfterFailure(@)
                                      [] OTHER -> @,
                            !.pc = IF d.res = "raise" THEN "done" ELSE @,
                            !.raised = d.res = "raise"]
    /\ UNCHANGED legacyRest

\* The loop condition fails: the function returns.
LegacyExit ==
    /\ legacy.pc = "loop"
    /\ ~DtLE(legacy.cur, legacy.end)
    /\ legacy' = [legacy EXCEPT !.pc = "done"]
    /\ UNCHANGED <<legacyRest, gz, txt>>

NextLegacy ==
    \/ LegacySkipTxt
    \/ LegacySkipGz
    \/ LegacyFetch
    \/ LegacyExit

SpecLegacy == InitLegacy /\ [][NextLegacy]_vars

\* C18: whatever the downloads do, no hour of the range is downloaded more
\* than once: after a failed download the loop is at a later hour.
C18_EachHourAttemptedOnce ==
    \A s \in Slots : legacy.attempts[s] <= 1


\* --------------------- SpecSchedule: hourly_wikipedia_schedule_function
\* max_lookback_hours as the schedule function passes it.
MaxLookbackHours == 6

\* What a HEAD request for an hour's file can do: status 200, another
\* status, or a RequestException.
ProbeOutcomes == {"200", "404", "error"}

\* check_wikipedia_data_availability: True on status 200 only.
CheckWikipediaDataAvailability(o) == o = "200"

\* dt - timedelta(hours=1)
SubHour(dt) == [dt EXCEPT !.h = @ - 1]

\* dt.strftime("%Y-%m-%d %H:%M:%S"): the fields down to the second.
Strftime(dt) == [h |-> dt.h, mi |-> dt.mi, s |-> dt.s]

\* target_start_hour: the hour before the scheduled time's hour.
TargetStartHour(scheduled_time) == SubHour(TruncateToHour(scheduled_time))

RunRequest(hour) ==
    [kind |-> "run", hour |-> hour, start_date |-> Strftime(hour), end_date |-> Strftime(hour)]
SkipReason == [kind |-> "skip"]

\* if available_hour and available_hour != target_start_hour: run for it,
\* else: skip.  found tells whether find_latest_available_hour returned an
\* hour.
SchedDecide(found, available_hour, target) ==
    IF found /\ available_hour # target THEN RunRequest(available_hour) ELSE SkipReason

InitSchedule ==
    /\ InitFiles({})
    /\ IdleFetch
    /\ IdleRange
    /\ IdlePool
    /\ IdleSnowflake
    /\ wf = NoWf
    /\ legacy = NoLegacy
    /\ \E t \in DateTimes : sched = [NoSched EXCEPT !.pc = "start", !.time = t]

schedRest == <<fileVars, call, rangeVars, poolVars, sfVars, schemaCfg, listing,
               loadCall, loadStats, wf, legacy>>

\* The probe of the target hour; when it is available the run is requested.
SchedProbeTarget ==
    /\ sched.pc = "start"
    /\ LET target == TargetStartHour(sched.time) IN
       \E ok \in {CheckWikipediaDataAvailability(o) : o \in ProbeOutcomes} :
        sched' = [sched EXCEPT
                    !.target = target,
                    !.probes = Append(@, [hour |-> target, ok |-> ok]),
                    !.check = target,
                    !.pc = IF ok THEN "done" ELSE "lookback",
                    !.result = IF ok THEN RunRequest(target) ELSE @]
    /\ UNCHANGED schedRest

\* One round of the loop of find_latest_available_hour, which starts at
\* the target hour again.
SchedLookbackProbe ==
    /\ sched.pc = "lookback"
    /\ sched.i < MaxLookbackHours
    /\ \E ok \in {CheckWikipediaDataAvailability(o) : o \in ProbeOutcomes} :
        sched' = [sched EXCEPT
                    !.probes = Append(@, [hour |-> sched.check, ok |-> ok]),
                    !.i = @ + 1,
                    !.check = IF ok THEN @ ELSE SubHour(@),
                    !.pc = IF ok THEN "done" ELSE @,
                    !.result = IF ok THEN SchedDecide(TRUE, sched.check, sched.target)
                               ELSE @]
    /\ UNCHANGED schedRest

\* The loop ran out: find_latest_available_hour returns None.
SchedLookbackExhausted ==
    /\ sched.pc = "lookback"
    /\ sched.i = MaxLookbackHours
    /\ sched' = [sched EXCEPT !.pc = "done",
                              !.result = SchedDecide(FALSE, sched.check, sched.target)]
    /\ UNCHANGED schedRest

NextSchedule ==
    \/ SchedProbeTarget
    \/ SchedLookbackProbe
    \/ SchedLookbackExhausted

SpecSchedule == InitSchedule /\ [][NextSchedule]_vars

\* The hours whose probe returned status 200 during the evaluation.
AvailableHours == {sched.probes[i].hour : i \in {j \in 1..Len(sched.probes) : sched.probes[j].ok}}

\* C20: when the evaluation ends with a run request, the run is for the
\* most recent hour whose probe returned 200, that hour is the previous hour
\* or one of the five before it, and start_date and end_date both name it;
\* when it ends with a skip, no probe of the evaluation found an available
\* hour.
C20_LatestAvailableOrSkip ==
    sched.pc = "done" =>
        /\ sched.result.kind = "run" =>
            /\ sched.result.hour \in AvailableHours
            /\ \A a \in AvailableHours : a.h <= sched.result.hour.h
            /\ sched.target.h - sched.result.hour.h \in 0..5
            /\ sched.result.start_date = Strftime(sched.result.hour)
            /\ sched.result.end_date = sched.result.start_date
        /\ sched.result.kind = "skip" => AvailableHours = {}

====
